---- MODULE Spec2Model ----
(***************************************************************************)
(* Byte Statistics Analyzer (byte-stats-analyzer.py): the analyzers,       *)
(* analyze_bytes, and main with print_stats and the CSV file.              *)
(*                                                                         *)
(* numpy arrays are functions on 0..m-1 (index = numpy index), Python      *)
(* lists, bytes and strings are sequences; a string is a sequence of       *)
(* one-character strings.  Floating-point results are kept exact: a        *)
(* quotient is a pair numerator/denominator, an entropy is the list of     *)
(* probabilities it sums over, NaN is a value of its own.                  *)
(***************************************************************************)
EXTENDS Integers, Sequences, FiniteSets, TLC

\* ------------------------------------------------------------------ bounds
MaxLen == 4
MaxSeed == 4
MaxLongLen == 12
MaxFiles == 2

\* byte values the analysed files are made of
ByteVals == {0, 1, 128, 255}

\* byte values the longer, periodic files are made of
SeedVals == {0, 255}

\* ------------------------------------------------------- input universe
Periodic(seed, n) == [i \in 1..n |-> seed[((i - 1) % Len(seed)) + 1]]

ShortBuffers == UNION { [1..n -> ByteVals] : n \in 0..MaxLen }

Seeds == UNION { [1..k -> SeedVals] : k \in 1..MaxSeed }

LongBuffers == { Periodic(seed, n) : seed \in Seeds, n \in (MaxLen + 1)..MaxLongLen }

\* the worked example of the specification, and files with four distinct
\* byte values of unequal counts
Examples ==
    { <<0, 1, 0, 1, 0, 1>>,
      <<0, 1, 1, 128, 128, 128, 255, 255, 255, 255>>,
      <<7, 200, 7, 200, 200, 64, 3, 3, 3, 3, 64>> }

Buffers == ShortBuffers \cup LongBuffers \cup Examples

\* order in which a sort leaves equal keys: numpy's default argsort
\* (kind='quicksort') is not stable, the order of ties is a property of the
\* numpy build
TiePolicies == {"low", "high", "swap"}

\* scipy.stats.skew/kurtosis on data without variance: NaN in current
\* releases, 0 and -3 in older ones
ScipyDegenerate == {"nan", "number"}

Paths == { <<"d", ".", "c", "/", "a", ".", "b">> }

\* the files main finds on disk: an empty one, one of 10 bytes or fewer, and
\* two longer ones
Disk ==
    { [path |-> <<"d", "/", "e">>, bytes |-> <<>>],
      [path |-> <<"d", "/", "s", ".", "b">>, bytes |-> <<0, 1>>],
      [path |-> <<"d", "/", "t", ".", "b">>, bytes |-> Periodic(<<0, 1>>, MaxLongLen)],
      [path |-> <<"u">>, bytes |-> Periodic(<<0, 255, 0, 0>>, MaxLongLen)] }

DiskPaths == {f.path : f \in Disk}

\* open(file, "rb").read()
read(path) == (CHOOSE f \in Disk : f.path = path).bytes

\* the lists of files FilePicker.get_input_files can return
FileLists == UNION { [1..n -> DiskPaths] : n \in 0..MaxFiles }

\* ------------------------------------------------------- Python values
None == [kind |-> "None"]

NaN == [kind |-> "nan"]

PyInt(i) == [kind |-> "int", val |-> i]

\* the float num/den
PyFloat(n, d) == [kind |-> "float", num |-> n, den |-> d]

\* int(x) of a float: truncation toward zero
Trunc(n, d) == IF n >= 0 THEN n \div d ELSE -((-n) \div d)

HexDigits == <<"0", "1", "2", "3", "4", "5", "6", "7", "8", "9", "a", "b", "c", "d", "e", "f">>

RECURSIVE Digits(_, _)
\* the digits of n >= 0 in the given base, most significant first
Digits(n, base) ==
    IF n < base THEN <<HexDigits[n + 1]>>
    ELSE Digits(n \div base, base) \o <<HexDigits[(n % base) + 1]>>

\* hex(i)
hex(i) == IF i < 0 THEN <<"-", "0", "x">> \o Digits(-i, 16) ELSE <<"0", "x">> \o Digits(i, 16)

\* str(i) / f"{i}" of an int
str(i) == IF i < 0 THEN <<"-">> \o Digits(-i, 10) ELSE Digits(i, 10)

\* f"{i:0{w}x}" of an int i >= 0
ZeroPadHex(i, w) ==
    LET d == Digits(i, 16)
    IN  [k \in 1..(IF Len(d) < w THEN w - Len(d) ELSE 0) |-> "0"] \o d

\* ------------------------------------------------------- numpy arrays
Size(a) == Cardinality(DOMAIN a)

\* np.frombuffer(file_bytes, dtype=np.uint8)
frombuffer(file_bytes) == [i \in 0..(Len(file_bytes) - 1) |-> file_bytes[i + 1]]

\* a[start:stop] for 0 <= start, stop already normalised
Slice(a, start, stop) ==
    LET lo == IF start > Size(a) THEN Size(a) ELSE start
        hi == IF stop > Size(a) THEN Size(a) ELSE stop
    IN  [i \in 0..(hi - lo - 1) |-> a[lo + i]]

\* Python's normalisation of a slice bound: negative bounds count from the end
Norm(a, k) == IF k < 0 THEN (IF Size(a) + k < 0 THEN 0 ELSE Size(a) + k) ELSE k

\* a[:stop]
UpTo(a, stop) == Slice(a, 0, Norm(a, stop))

\* a[start:]
From(a, start) == Slice(a, Norm(a, start), Size(a))

\* a[start:stop]
Mid(a, start, stop) == Slice(a, Norm(a, start), Norm(a, stop))

\* a[::-1]
Reversed(a) == [i \in DOMAIN a |-> a[Size(a) - 1 - i]]

\* a[idx] for an index array idx
Take(a, idx) == [i \in DOMAIN idx |-> a[idx[i]]]

\* list(a)
ToList(a) == [i \in 1..Size(a) |-> a[i - 1]]

ToArr(s) == [i \in 0..(Len(s) - 1) |-> s[i + 1]]

RECURSIVE SumRange(_, _, _)
\* a[lo] + ... + a[hi - 1]
SumRange(a, lo, hi) ==
    IF hi <= lo THEN 0
    ELSE IF hi = lo + 1 THEN a[lo]
    ELSE SumRange(a, lo, (lo + hi) \div 2) + SumRange(a, (lo + hi) \div 2, hi)

\* a.sum() / np.sum(a)
Sum(a) == SumRange(a, 0, Size(a))

SetMin(S) == CHOOSE x \in S : \A y \in S : x <= y

SetMax(S) == CHOOSE x \in S : \A y \in S : x >= y

RECURSIVE SortedSeq(_)
\* the elements of a finite set of integers in ascending order
SortedSeq(S) == IF S = {} THEN <<>> ELSE <<SetMin(S)>> \o SortedSeq(S \ {SetMin(S)})

\* bincount without minlength: the table ends at the largest value present
bincount_no_minlength(a, minlength) ==
    LET vals == {a[i] : i \in DOMAIN a}
    IN  [v \in 0..(IF vals = {} THEN -1 ELSE SetMax(vals)) |-> Cardinality({i \in DOMAIN a : a[i] = v})]

\* np.bincount(a, minlength=minlength)
bincount(a, minlength) ==
    LET vals == {a[i] : i \in DOMAIN a}
        m == IF vals = {} \/ SetMax(vals) + 1 < minlength THEN minlength ELSE SetMax(vals) + 1
    IN  [v \in 0..(m - 1) |-> IF v \in vals THEN Cardinality({i \in DOMAIN a : a[i] = v}) ELSE 0]

\* np.unique(a) of an integer array: the distinct values, ascending
unique(a) == ToArr(SortedSeq({a[i] : i \in DOMAIN a}))

\* np.where(mask)[0]: the indices where the boolean array is true, ascending
where(mask) == ToArr(SortedSeq({i \in DOMAIN mask : mask[i]}))

\* np.diff(a) of a uint8 array: the differences stay uint8 and wrap modulo 256
diff(a) == [i \in 0..(Size(a) - 2) |-> (a[i + 1] - a[i]) % 256]

\* np.diff(a) of an int64 array
diff_int(a) == [i \in 0..(Size(a) - 2) |-> a[i + 1] - a[i]]

\* the order in which a build's sort visits the m indices of equal keys
TieOrder(tie, m) ==
    [j \in 1..m |->
        CASE tie = "low" -> j - 1
          [] tie = "high" -> m - j
          [] OTHER -> LET p == j - 1
                          q == IF p % 2 = 0 THEN p + 1 ELSE p - 1
                      IN  IF q < m THEN q ELSE p]

RECURSIVE SortGroups(_, _, _)
SortGroups(keys, order, vals) ==
    IF vals = {} THEN <<>>
    ELSE LET v == SetMin(vals)
         IN  SelectSeq(order, LAMBDA i : keys[i] = v) \o SortGroups(keys, order, vals \ {v})

\* np.argsort(keys) / keys.argsort(): the indices in ascending key order; equal
\* keys come in the order the build leaves them in
argsort(keys, tie) ==
    ToArr(SortGroups(keys, TieOrder(tie, Size(keys)), {keys[i] : i \in DOMAIN keys}))

\* Size(a) * sum(a^2) - sum(a)^2 = Size(a)^2 * variance
VarNum(a) == Size(a) * Sum([i \in DOMAIN a |-> a[i] * a[i]]) - Sum(a) * Sum(a)

\* np.mean(a)
mean(a) == IF Size(a) = 0 THEN NaN ELSE PyFloat(Sum(a), Size(a))

\* np.sort(a): the result does not depend on the order of ties
sort(a) == Take(a, argsort(a, "low"))

\* np.median(a)
median(a) ==
    LET n == Size(a)
        s == sort(a)
    IN  IF n = 0 THEN NaN
        ELSE IF n % 2 = 1 THEN PyFloat(s[n \div 2], 1)
        ELSE PyFloat(s[n \div 2 - 1] + s[n \div 2], 2)

\* np.std(a): the square root of num/den (population variance)
std(a) == IF Size(a) = 0 THEN NaN ELSE [kind |-> "sqrt", num |-> VarNum(a), den |-> Size(a) * Size(a)]

ValueError == [kind |-> "ValueError"]

\* int(x) of a float: truncates, and raises ValueError on NaN
int(x) ==
    CASE x.kind = "nan" -> ValueError
      [] x.kind = "float" -> PyInt(Trunc(x.num, x.den))
      [] x.kind = "sqrt" -> PyInt(CHOOSE s \in 0..255 : s * s * x.den <= x.num /\ (s + 1) * (s + 1) * x.den > x.num)
      [] OTHER -> x

\* x == 0 for a float x
IsZero(x) ==
    CASE x.kind = "int" -> x.val = 0
      [] x.kind = "float" -> x.num = 0
      [] x.kind = "sqrt" -> x.num = 0
      [] OTHER -> FALSE

\* ------------------------------------------------------- the analyzers
\* the index of the last occurrence of character c in string p, 0 if none
LastIndex(p, c) == IF \E i \in 1..Len(p) : p[i] = c THEN SetMax({i \in 1..Len(p) : p[i] = c}) ELSE 0

\* os.path.basename(p)
basename(p) == SubSeq(p, LastIndex(p, "/") + 1, Len(p))

\* os.path.splitext(p)[1]: the extension starts at the last dot of the last
\* component, unless only dots precede it there
splitext1(p) ==
    LET sepIndex == LastIndex(p, "/")
        dotIndex == LastIndex(p, ".")
    IN  IF dotIndex > sepIndex /\ \E k \in (sepIndex + 1)..(dotIndex - 1) : p[k] # "."
        THEN SubSeq(p, dotIndex, Len(p))
        ELSE <<>>

compute_file_metadata(file) == [filename |-> basename(file), file_type |-> splitext1(file)]

\* f"{hex(byte)} (count: {count})" and f"0x{value:04x} (count: {count})"
CountSuffix(count) == <<" ", "(", "c", "o", "u", "n", "t", ":", " ">> \o str(count) \o <<")">>

\* the first three of the ascending order instead of the last three
most_common_indices_first(byte_counts, tie) == Reversed(UpTo(argsort(byte_counts, tie), 3))

most_common_indices(byte_counts, tie) == Reversed(From(argsort(byte_counts, tie), -3))

least_common_indices(byte_counts, tie) ==
    LET non_zero_indices == where([v \in DOMAIN byte_counts |-> byte_counts[v] > 0])
    IN  Take(non_zero_indices, UpTo(argsort(Take(byte_counts, non_zero_indices), tie), 3))

compute_byte_occurrences(np_bytes, tie) ==
    LET byte_counts == bincount(np_bytes, 256)
        most == most_common_indices(byte_counts, tie)
        least == least_common_indices(byte_counts, tie)
    IN  [byte_counts |-> byte_counts,
         total_bytes |-> Sum(byte_counts),
         unique_bytes |-> Size(unique(np_bytes)),
         most_common |-> [k \in 1..Size(most) |-> hex(most[k - 1]) \o CountSuffix(byte_counts[most[k - 1]])],
         least_common |-> [k \in 1..Size(least) |-> hex(least[k - 1]) \o CountSuffix(byte_counts[least[k - 1]])]]

\* hex(int(x)); int raises ValueError when x is NaN
HexInt(x) == IF int(x) = ValueError THEN ValueError ELSE [kind |-> "str", chars |-> hex(int(x).val)]

compute_basic_stats(np_bytes) ==
    LET mean_value == HexInt(mean(np_bytes))
        median_value == HexInt(median(np_bytes))
        std_value == HexInt(std(np_bytes))
    IN  IF ValueError \in {mean_value, median_value, std_value}
        THEN [raised |-> TRUE]
        ELSE [raised |-> FALSE,
              mean_value |-> mean_value.chars,
              median_value |-> median_value.chars,
              std_value |-> std_value.chars]

compute_rate_of_change(np_bytes) ==
    LET rate_of_change == diff(np_bytes)
    IN  IF Size(rate_of_change) > 0
        THEN [mean_rate |-> HexInt(mean(rate_of_change)).chars,
              median_rate |-> HexInt(median(rate_of_change)).chars,
              std_rate |-> HexInt(std(rate_of_change)).chars]
        ELSE [mean_rate |-> hex(0), median_rate |-> hex(0), std_rate |-> hex(0)]

\* -np.sum(p * np.log2(p)) over the probabilities probs[k] = <<count, total>>
Entropy(probs) == [kind |-> "entropy", probs |-> probs]

\* the probabilities are formed over the length of the count table
compute_entropy_table(byte_counts, total_bytes) ==
    IF total_bytes > 0
    THEN LET probabilities == [v \in DOMAIN byte_counts |-> <<byte_counts[v], Size(byte_counts)>>]
             non_zero_probs == Take(probabilities, where([v \in DOMAIN probabilities |-> probabilities[v][1] > 0]))
         IN  Entropy(ToList(non_zero_probs))
    ELSE PyInt(0)

\* the zero probabilities are not filtered out
compute_entropy_unfiltered(byte_counts, total_bytes) ==
    IF total_bytes > 0
    THEN Entropy(ToList([v \in DOMAIN byte_counts |-> <<byte_counts[v], total_bytes>>]))
    ELSE PyInt(0)

compute_entropy(byte_counts, total_bytes) ==
    IF total_bytes > 0
    THEN LET probabilities == [v \in DOMAIN byte_counts |-> <<byte_counts[v], total_bytes>>]
             non_zero_probs == Take(probabilities, where([v \in DOMAIN probabilities |-> probabilities[v][1] > 0]))
         IN  Entropy(ToList(non_zero_probs))
    ELSE PyInt(0)

\* a change is seen only where the later byte is the larger one
compute_runs_increasing(np_bytes) ==
    IF Size(np_bytes) = 0 THEN [max_run |-> PyInt(0), avg_run |-> PyInt(0)]
    ELSE LET changes == [i \in DOMAIN diff(np_bytes) |-> np_bytes[i + 1] > np_bytes[i]]
             run_ends == [k \in DOMAIN where(changes) |-> where(changes)[k] + 1]
             indices == ToArr(<<0>> \o ToList(run_ends) \o <<Size(np_bytes)>>)
             run_lengths == diff_int(indices)
         IN  [max_run |-> PyInt(SetMax({run_lengths[i] : i \in DOMAIN run_lengths})),
              avg_run |-> PyFloat(Sum(run_lengths), Size(run_lengths))]

compute_runs(np_bytes) ==
    IF Size(np_bytes) = 0 THEN [max_run |-> PyInt(0), avg_run |-> PyInt(0)]
    ELSE LET changes == [i \in DOMAIN diff(np_bytes) |-> diff(np_bytes)[i] # 0]
             run_ends == [k \in DOMAIN where(changes) |-> where(changes)[k] + 1]
             indices == ToArr(<<0>> \o ToList(run_ends) \o <<Size(np_bytes)>>)
             run_lengths == diff_int(indices)
         IN  [max_run |-> PyInt(SetMax({run_lengths[i] : i \in DOMAIN run_lengths})),
              avg_run |-> PyFloat(Sum(run_lengths), Size(run_lengths))]

\* ---- unsigned 32-bit integers, kept as two 16-bit halves <<hi, lo>>
U32(x) == <<(x \div 65536) % 65536, x % 65536>>

RECURSIVE U32Shl(_, _)
\* v << k in uint32, k a multiple of 8: bits shifted past bit 31 are lost
U32Shl(v, k) ==
    IF k = 0 THEN v
    ELSE U32Shl(<<(v[1] * 256 + v[2] \div 256) % 65536, (v[2] * 256) % 65536>>, k - 8)

\* v + w in uint32 (modulo 2^32)
U32Add(v, w) == <<(v[1] + w[1] + (v[2] + w[2]) \div 65536) % 65536, (v[2] + w[2]) % 65536>>

U32Less(v, w) == v[1] < w[1] \/ (v[1] = w[1] /\ v[2] < w[2])

\* np.unique(a) of a uint32 array: the distinct values, ascending
unique_u32(a) ==
    LET S == {a[i] : i \in DOMAIN a}
    IN  [k \in 0..(Cardinality(S) - 1) |-> CHOOSE x \in S : Cardinality({y \in S : U32Less(y, x)}) = k]

counts_of(a, uniques) == [k \in DOMAIN uniques |-> Cardinality({i \in DOMAIN a : a[i] = uniques[k]})]

Negated(a) == [i \in DOMAIN a |-> -a[i]]

\* the products are formed in uint8, without widening to uint16
patterns2_uint8(arr) ==
    LET hi == UpTo(arr, -1)
        lo == From(arr, 1)
    IN  [i \in DOMAIN hi |-> (hi[i] * 256 + lo[i]) % 256]

patterns2(arr) ==
    LET hi == UpTo(arr, -1)
        lo == From(arr, 1)
    IN  [i \in DOMAIN hi |-> ((hi[i] % 65536) * 256 + (lo[i] % 65536)) % 65536]

\* the windows are packed in uint16: the bits of the two leading bytes are
\* shifted out
patterns4_uint16(arr) ==
    LET c == Mid(arr, 2, -1)
        d == From(arr, 3)
    IN  [i \in DOMAIN d |-> <<0, (c[i] * 256 + d[i]) % 65536>>]

patterns4(arr) ==
    LET a == [i \in DOMAIN UpTo(arr, -3) |-> U32Shl(U32(UpTo(arr, -3)[i]), 24)]
        b == [i \in DOMAIN Mid(arr, 1, -2) |-> U32Shl(U32(Mid(arr, 1, -2)[i]), 16)]
        c == [i \in DOMAIN Mid(arr, 2, -1) |-> U32Shl(U32(Mid(arr, 2, -1)[i]), 8)]
        d == [i \in DOMAIN From(arr, 3) |-> U32(From(arr, 3)[i])]
    IN  [i \in DOMAIN a |-> U32Add(U32Add(U32Add(a[i], b[i]), c[i]), d[i])]

compute_patterns(file_bytes, tie) ==
    LET arr == frombuffer(file_bytes)
        uniques2 == unique(patterns2(arr))
        counts2 == counts_of(patterns2(arr), uniques2)
        indices2 == UpTo(argsort(Negated(counts2), tie), 3)
        uniques4 == unique_u32(patterns4(arr))
        counts4 == counts_of(patterns4(arr), uniques4)
        indices4 == UpTo(argsort(Negated(counts4), tie), 3)
    IN  [common_2byte_patterns |->
            IF Size(arr) >= 2
            THEN [k \in 1..Size(indices2) |->
                    <<"0", "x">> \o ZeroPadHex(uniques2[indices2[k - 1]], 4)
                        \o CountSuffix(counts2[indices2[k - 1]])]
            ELSE <<>>,
         common_4byte_patterns |->
            IF Size(arr) >= 4
            THEN [k \in 1..Size(indices4) |->
                    <<"0", "x">> \o ZeroPadHex(uniques4[indices4[k - 1]][1], 4)
                        \o ZeroPadHex(uniques4[indices4[k - 1]][2], 4)
                        \o CountSuffix(counts4[indices4[k - 1]])]
            ELSE <<>>]

\* scipy.stats.skew(a) (order 3) and scipy.stats.kurtosis(a) (order 4, Fisher):
\* NaN on an empty array; on data without variance NaN or, in older releases,
\* 0 (skew) and -3 (kurtosis)
standardized_moment(a, order, degenerate) ==
    IF Size(a) = 0 THEN NaN
    ELSE IF VarNum(a) = 0
    THEN (IF degenerate = "nan" THEN NaN ELSE PyFloat(IF order = 3 THEN 0 ELSE -3, 1))
    ELSE [kind |-> "moment", order |-> order, var_num |-> VarNum(a), n |-> Size(a)]

compute_distribution(np_bytes, degenerate) ==
    [skewness_value |-> standardized_moment(np_bytes, 3, degenerate),
     kurtosis_value |-> standardized_moment(np_bytes, 4, degenerate)]

\* np.corrcoef(a, b)[0, 1]: cov / sqrt(va * vb), NaN (0/0) when a or b is constant
corrcoef01(a, b) ==
    IF VarNum(a) = 0 \/ VarNum(b) = 0 THEN NaN
    ELSE [kind |-> "corr",
          cov |-> Size(a) * Sum([i \in DOMAIN a |-> a[i] * b[i]]) - Sum(a) * Sum(b),
          va |-> VarNum(a), vb |-> VarNum(b)]

max_lag == 10

\* the lag test is len(np_bytes) < lag
compute_autocorrelation_lt(np_bytes) ==
    [lag \in 1..max_lag |->
        IF Size(np_bytes) < lag THEN None
        ELSE LET a == UpTo(np_bytes, -lag)
                 b == From(np_bytes, lag)
             IN  IF IsZero(std(a)) \/ IsZero(std(b)) THEN PyInt(0) ELSE corrcoef01(a, b)]

compute_autocorrelation(np_bytes) ==
    [lag \in 1..max_lag |->
        IF Size(np_bytes) <= lag THEN None
        ELSE LET a == UpTo(np_bytes, -lag)
                 b == From(np_bytes, lag)
             IN  IF IsZero(std(a)) \/ IsZero(std(b)) THEN PyInt(0) ELSE corrcoef01(a, b)]

\* the guard tests even_count instead of odd_count
compute_even_odd_distribution_even_guard(np_bytes) ==
    LET even_count == Cardinality({i \in DOMAIN np_bytes : np_bytes[i] % 2 = 0})
        odd_count == Cardinality({i \in DOMAIN np_bytes : np_bytes[i] % 2 = 1})
    IN  [even |-> even_count, odd |-> odd_count,
         even_to_odd_ratio |->
            IF even_count = 0 THEN None
            ELSE IF odd_count # 0 THEN PyFloat(even_count, odd_count)
            ELSE [kind |-> "inf"]]

\* the ratio is formed without the test for odd_count = 0 (0/0 is NaN, x/0 is inf)
compute_even_odd_distribution_unguarded(np_bytes) ==
    LET even_count == Cardinality({i \in DOMAIN np_bytes : np_bytes[i] % 2 = 0})
        odd_count == Cardinality({i \in DOMAIN np_bytes : np_bytes[i] % 2 = 1})
    IN  [even |-> even_count, odd |-> odd_count,
         even_to_odd_ratio |->
            IF odd_count # 0 THEN PyFloat(even_count, odd_count)
            ELSE IF even_count = 0 THEN NaN
            ELSE [kind |-> "inf"]]

compute_even_odd_distribution(np_bytes) ==
    LET even_count == Cardinality({i \in DOMAIN np_bytes : np_bytes[i] % 2 = 0})
        odd_count == Cardinality({i \in DOMAIN np_bytes : np_bytes[i] % 2 = 1})
    IN  [even |-> even_count, odd |-> odd_count,
         even_to_odd_ratio |-> IF odd_count # 0 THEN PyFloat(even_count, odd_count) ELSE None]

RECURSIVE RowLess(_, _)
\* lexicographic order of two rows of equal length
RowLess(r, q) ==
    /\ Len(r) > 0
    /\ \/ r[1] < q[1]
       \/ r[1] = q[1] /\ RowLess(SubSeq(r, 2, Len(r)), SubSeq(q, 2, Len(q)))

\* np.unique(rows, axis=0): the distinct rows in lexicographic order
unique_rows(a) ==
    LET S == {a[i] : i \in DOMAIN a}
    IN  [k \in 0..(Cardinality(S) - 1) |-> CHOOSE x \in S : Cardinality({y \in S : RowLess(y, x)}) = k]

compute_ngram_entropy(file_bytes, n) ==
    IF Len(file_bytes) < n THEN PyInt(0)
    ELSE LET arr == frombuffer(file_bytes)
             ngrams == [i \in 0..(Size(arr) - n) |-> [j \in 1..n |-> arr[i + j - 1]]]
             counts == counts_of(ngrams, unique_rows(ngrams))
         IN  Entropy([k \in 1..Size(counts) |-> <<counts[k - 1], Sum(counts)>>])

\* ------------------------------------------------------- state
VARIABLES
    build,      \* the numpy/scipy build: [tie, degenerate]
    file,       \* the path handed to analyze_bytes
    content,    \* the bytes of that file on disk
    pc,         \* position in analyze_bytes, or call/returned for a direct call
    locals,     \* the local variables assigned so far, by name
    stats,      \* the dictionary analyze_bytes returns, empty until then
    files,          \* main: the list of files to analyze
    generate_csv,   \* main: args.generate_csv
    main_pc,        \* main: position in main, idle when main is not running
    loop_i,         \* main: the loop counter i of enumerate(files, 1)
    stats_list,     \* main: the records collected so far
    stdout,         \* main: the messages of the loop, in order
    printed,        \* print_stats: the blocks written to the terminal, in order
    csvfile         \* byte_stats.csv: whether it was written, and its rows in order

driver == <<files, generate_csv, main_pc, loop_i, stats_list, stdout, printed, csvfile>>

vars == <<build, file, content, pc, locals, stats, driver>>

NoValues == [n \in {} |-> 0]

Has(name) == name \in DOMAIN locals

\* analyze_bytes or an analyzer called on its own, without main
DriverIdle ==
    /\ files = <<>>
    /\ generate_csv = FALSE
    /\ main_pc = "idle"
    /\ loop_i = 0
    /\ stats_list = <<>>
    /\ stdout = <<>>
    /\ printed = <<>>
    /\ csvfile = [written |-> FALSE, rows |-> <<>>]

Init ==
    /\ build \in [tie : TiePolicies, degenerate : ScipyDegenerate]
    /\ file \in Paths
    /\ content \in Buffers
    /\ pc = "start"
    /\ locals = NoValues
    /\ stats = NoValues
    /\ DriverIdle

\* ---- analyze_bytes(file), one step per statement
Step(to, assigned) ==
    /\ pc' = to
    /\ locals' = assigned @@ locals
    /\ UNCHANGED <<build, file, content, stats, driver>>

ReadFile ==
    /\ pc = "start"
    /\ Step("metadata", [file_bytes |-> content, np_bytes |-> frombuffer(content)])

Metadata ==
    /\ pc = "metadata"
    /\ Step("occurrences", compute_file_metadata(file))

\* the order of ties changes from one call of analyze_bytes to the next
Occurrences_per_call ==
    /\ pc = "occurrences"
    /\ Step("basic_stats", compute_byte_occurrences(locals.np_bytes, IF stats_list = <<>> THEN "low" ELSE "high"))

Occurrences ==
    /\ pc = "occurrences"
    /\ Step("basic_stats", compute_byte_occurrences(locals.np_bytes, build.tie))

BasicStats ==
    /\ pc = "basic_stats"
    /\ LET result == compute_basic_stats(locals.np_bytes)
       IN  /\ ~result.raised
           /\ Step("rate_of_change",
                   [mean_value |-> result.mean_value,
                    median_value |-> result.median_value,
                    std_value |-> result.std_value])

\* int(nan) raises ValueError: analyze_bytes ends without a record
BasicStatsRaises ==
    /\ pc = "basic_stats"
    /\ compute_basic_stats(locals.np_bytes).raised
    /\ pc' = "raised"
    /\ UNCHANGED <<build, file, content, locals, stats, driver>>

RateOfChange ==
    /\ pc = "rate_of_change"
    /\ Step("entropy", compute_rate_of_change(locals.np_bytes))

EntropyStep ==
    /\ pc = "entropy"
    /\ Step("runs", [entropy_value |-> compute_entropy(locals.byte_counts, locals.total_bytes)])

Runs ==
    /\ pc = "runs"
    /\ Step("patterns", compute_runs(locals.np_bytes))

Patterns ==
    /\ pc = "patterns"
    /\ Step("distribution", compute_patterns(locals.file_bytes, build.tie))

Distribution ==
    /\ pc = "distribution"
    /\ Step("autocorrelation", compute_distribution(locals.np_bytes, build.degenerate))

Autocorrelation ==
    /\ pc = "autocorrelation"
    /\ Step("even_odd", [autocorrs |-> compute_autocorrelation(locals.np_bytes)])

EvenOdd ==
    /\ pc = "even_odd"
    /\ Step("ngram_entropy", [even_odd_distribution |-> compute_even_odd_distribution(locals.np_bytes)])

NgramEntropy ==
    /\ pc = "ngram_entropy"
    /\ Step("assemble", [ngram_entropy |-> compute_ngram_entropy(locals.file_bytes, 3)])

Assemble ==
    /\ pc = "assemble"
    /\ pc' = "done"
    /\ stats' = [filename |-> locals.filename,
                 file_type |-> locals.file_type,
                 total_bytes |-> locals.total_bytes,
                 unique_bytes |-> locals.unique_bytes,
                 most_common_bytes |-> locals.most_common,
                 least_common_bytes |-> locals.least_common,
                 mean_byte_value |-> locals.mean_value,
                 median_byte_value |-> locals.median_value,
                 std_dev_byte_value |-> locals.std_value,
                 mean_rate_of_change |-> locals.mean_rate,
                 median_rate_of_change |-> locals.median_rate,
                 std_dev_rate_of_change |-> locals.std_rate,
                 entropy |-> locals.entropy_value,
                 max_run_length |-> locals.max_run,
                 avg_run_length |-> locals.avg_run,
                 common_2byte_patterns |-> locals.common_2byte_patterns,
                 common_4byte_patterns |-> locals.common_4byte_patterns,
                 skewness |-> locals.skewness_value,
                 kurtosis |-> locals.kurtosis_value,
                 autocorrelation |-> locals.autocorrs,
                 even_odd_distribution |-> locals.even_odd_distribution,
                 ngram_entropy |-> locals.ngram_entropy]
    /\ UNCHANGED <<build, file, content, locals, driver>>

Next ==
    \/ ReadFile
    \/ Metadata
    \/ Occurrences
    \/ BasicStats
    \/ BasicStatsRaises
    \/ RateOfChange
    \/ EntropyStep
    \/ Runs
    \/ Patterns
    \/ Distribution
    \/ Autocorrelation
    \/ EvenOdd
    \/ NgramEntropy
    \/ Assemble

Spec == Init /\ [][Next]_vars

\* ---- each analyzer called on its own, on the array of any buffer
Return(result) ==
    /\ pc' = "returned"
    /\ locals' = result
    /\ UNCHANGED <<build, file, content, stats, driver>>

CallByteOccurrences ==
    /\ pc = "start"
    /\ Return(compute_byte_occurrences(frombuffer(content), build.tie))

CallBasicStats ==
    /\ pc = "start"
    /\ Return(compute_basic_stats(frombuffer(content)))

CallRateOfChange ==
    /\ pc = "start"
    /\ Return(compute_rate_of_change(frombuffer(content)))

CallEntropy ==
    /\ pc = "start"
    /\ LET occurrences == compute_byte_occurrences(frombuffer(content), build.tie)
       IN  Return([entropy_value |-> compute_entropy(occurrences.byte_counts, occurrences.total_bytes)])

CallRuns ==
    /\ pc = "start"
    /\ Return(compute_runs(frombuffer(content)))

CallPatterns ==
    /\ pc = "start"
    /\ Return(compute_patterns(content, build.tie))

CallDistribution ==
    /\ pc = "start"
    /\ Return(compute_distribution(frombuffer(content), build.degenerate))

CallAutocorrelation ==
    /\ pc = "start"
    /\ Return([autocorrs |-> compute_autocorrelation(frombuffer(content))])

CallEvenOdd ==
    /\ pc = "start"
    /\ Return([even_odd_distribution |-> compute_even_odd_distribution(frombuffer(content))])

CallNgramEntropy ==
    /\ pc = "start"
    /\ Return([ngram_entropy |-> compute_ngram_entropy(content, 3)])

NextFn ==
    \/ CallByteOccurrences
    \/ CallBasicStats
    \/ CallRateOfChange
    \/ CallEntropy
    \/ CallRuns
    \/ CallPatterns
    \/ CallDistribution
    \/ CallAutocorrelation
    \/ CallEvenOdd
    \/ CallNgramEntropy

SpecFn == Init /\ [][NextFn]_vars

\* ---- main(): the loop over the files, print_stats, the CSV file
TypeError == [kind |-> "TypeError"]

\* f"{val:.4f}": a number is rendered with four decimals, None does not
\* support the format and raises TypeError
format_4f(val) == IF val = None THEN TypeError ELSE [kind |-> "str", fixed4 |-> val]

\* what one pass of the loop of print_stats writes for the record: all its
\* lines, or those before the format that raises
print_block(record) ==
    LET autocorr_values == [k \in 1..Len(record.autocorrelation) |-> format_4f(record.autocorrelation[k])]
        ratio == record.even_odd_distribution.even_to_odd_ratio
    IN  IF \E k \in 1..Len(autocorr_values) : autocorr_values[k] = TypeError
        THEN [raised |-> TRUE, filename |-> record.filename]
        ELSE [raised |-> FALSE,
              filename |-> record.filename,
              stats |-> record,
              autocorr_values |-> autocorr_values,
              ratio_str |-> IF ratio # None THEN format_4f(ratio) ELSE [kind |-> "str", chars |-> <<"N", "/", "A">>],
              ngram_entropy |-> format_4f(record.ngram_entropy)]

InitMain ==
    /\ build \in [tie : TiePolicies, degenerate : ScipyDegenerate]
    /\ files \in FileLists
    /\ generate_csv \in BOOLEAN
    /\ main_pc = "start"
    /\ loop_i = 0
    /\ stats_list = <<>>
    /\ stdout = <<>>
    /\ printed = <<>>
    /\ csvfile = [written |-> FALSE, rows |-> <<>>]
    /\ file = <<>>
    /\ content = <<>>
    /\ pc = "idle"
    /\ locals = NoValues
    /\ stats = NoValues

\* if not files: print(...); return
GetInputFiles ==
    /\ main_pc = "start"
    /\ IF files = <<>>
       THEN main_pc' = "exit" /\ stdout' = Append(stdout, [kind |-> "no_files"])
       ELSE main_pc' = "loop" /\ stdout' = stdout
    /\ UNCHANGED <<build, file, content, pc, locals, stats, files, generate_csv, loop_i, stats_list, printed, csvfile>>

\* the next pass of the loop enters analyze_bytes(file)
CallAnalyzeBytes ==
    /\ main_pc = "loop"
    /\ loop_i < Len(files)
    /\ loop_i' = loop_i + 1
    /\ file' = files[loop_i + 1]
    /\ content' = read(files[loop_i + 1])
    /\ pc' = "start"
    /\ locals' = NoValues
    /\ stats' = NoValues
    /\ main_pc' = "analyze"
    /\ UNCHANGED <<build, files, generate_csv, stats_list, stdout, printed, csvfile>>

\* analyze_bytes returned: stats_list.append(stats)
AppendStats ==
    /\ main_pc = "analyze"
    /\ pc = "done"
    /\ stats_list' = Append(stats_list, stats)
    /\ stdout' = Append(stdout, [kind |-> "finished", i |-> loop_i, file |-> file])
    /\ main_pc' = "loop"
    /\ UNCHANGED <<build, file, content, pc, locals, stats, files, generate_csv, loop_i, printed, csvfile>>

\* analyze_bytes raised: except Exception
ExceptException ==
    /\ main_pc = "analyze"
    /\ pc = "raised"
    /\ stdout' = Append(stdout, [kind |-> "error", i |-> loop_i, file |-> file])
    /\ main_pc' = "loop"
    /\ UNCHANGED <<build, file, content, pc, locals, stats, files, generate_csv, loop_i, stats_list, printed, csvfile>>

\* the loop is over: if not stats_list: print(...); return
EndLoop ==
    /\ main_pc = "loop"
    /\ loop_i = Len(files)
    /\ IF stats_list = <<>>
       THEN main_pc' = "exit" /\ stdout' = Append(stdout, [kind |-> "no_data"])
       ELSE main_pc' = "print_stats" /\ stdout' = stdout
    /\ UNCHANGED <<build, file, content, pc, locals, stats, files, generate_csv, loop_i, stats_list, printed, csvfile>>

\* one pass of the loop of print_stats; an exception raised in it is caught
\* nowhere and ends main
PrintStats ==
    /\ main_pc = "print_stats"
    /\ Len(printed) < Len(stats_list)
    /\ LET block == print_block(stats_list[Len(printed) + 1])
       IN  /\ printed' = Append(printed, block)
           /\ main_pc' = IF block.raised THEN "crashed" ELSE "print_stats"
    /\ UNCHANGED <<build, file, content, pc, locals, stats, files, generate_csv, loop_i, stats_list, stdout, csvfile>>

\* print_stats returned: if args.generate_csv
PrintStatsReturns ==
    /\ main_pc = "print_stats"
    /\ Len(printed) = Len(stats_list)
    /\ main_pc' = IF generate_csv THEN "csv" ELSE "exit"
    /\ UNCHANGED <<build, file, content, pc, locals, stats, files, generate_csv, loop_i, stats_list, stdout, printed, csvfile>>

\* the header and one row per record of stats_list
WriteCsv ==
    /\ main_pc = "csv"
    /\ csvfile' = [written |-> TRUE, rows |-> stats_list]
    /\ stdout' = Append(stdout, [kind |-> "saved"])
    /\ main_pc' = "exit"
    /\ UNCHANGED <<build, file, content, pc, locals, stats, files, generate_csv, loop_i, stats_list, printed>>

NextMain ==
    \/ GetInputFiles
    \/ CallAnalyzeBytes
    \/ ReadFile
    \/ Metadata
    \/ Occurrences
    \/ BasicStats
    \/ BasicStatsRaises
    \/ RateOfChange
    \/ EntropyStep
    \/ Runs
    \/ Patterns
    \/ Distribution
    \/ Autocorrelation
    \/ EvenOdd
    \/ NgramEntropy
    \/ Assemble
    \/ AppendStats
    \/ ExceptException
    \/ EndLoop
    \/ PrintStats
    \/ PrintStatsReturns
    \/ WriteCsv

SpecMain == InitMain /\ [][NextMain]_vars

\* ------------------------------------------------------- properties
\* what the properties say is stated from the file's bytes, not from the
\* analyzers' intermediate arrays
N == Len(content)

Min(i, j) == IF i < j THEN i ELSE j

\* number of occurrences of byte value v in the file
Occ(v) == Cardinality({i \in 1..N : content[i] = v})

Present == {content[i] : i \in 1..N}

IsConstant(s) == \A i, j \in 1..Len(s) : s[i] = s[j]

RECURSIVE SeqSum(_)
SeqSum(s) == IF s = <<>> THEN 0 ELSE s[1] + SeqSum(SubSeq(s, 2, Len(s)))

DigitVal(c) == CHOOSE d \in 0..15 : HexDigits[d + 1] = c

RECURSIVE ParseNat(_, _)
\* the number a string of digits denotes
ParseNat(chars, base) ==
    IF chars = <<>> THEN 0
    ELSE ParseNat(SubSeq(chars, 1, Len(chars) - 1), base) * base + DigitVal(chars[Len(chars)])

FirstSpace(e) == SetMin({i \in 1..Len(e) : e[i] = " "})

\* the byte value and the count a rendered entry "0x.. (count: ..)" shows
EntryByte(e) == ParseNat(SubSeq(e, 3, FirstSpace(e) - 1), 16)

EntryCount(e) == ParseNat(SubSeq(e, FirstSpace(e) + 9, Len(e) - 1), 10)

\* a value is NaN, or a sum with a 0 * log2(0) term
HasNaN(x) == x.kind = "nan" \/ (x.kind = "entropy" /\ \E k \in 1..Len(x.probs) : x.probs[k][1] = 0)

\* a numeric value that equals 0
NumZero(x) ==
    \/ x.kind = "int" /\ x.val = 0
    \/ x.kind = "float" /\ x.num = 0
    \/ x.kind = "entropy" /\ \A k \in 1..Len(x.probs) : x.probs[k][1] = x.probs[k][2]

\* a numeric value that equals the integer i
NumEq(x, i) ==
    \/ x.kind = "int" /\ x.val = i
    \/ x.kind = "float" /\ x.num = i * x.den

Zero == <<"0", "x", "0">>

\* C1: for every buffer, the empty one included, analyze_bytes returns a
\* record and raises no error
C1_Total == pc # "raised"

\* C2: the count table has exactly 256 entries, zero for absent byte values,
\* summing to total_bytes = len(buffer); unique_bytes is the number of
\* nonzero entries
C2_CountTable ==
    Has("byte_counts") =>
        /\ DOMAIN locals.byte_counts = 0..255
        /\ \A v \in 0..255 : locals.byte_counts[v] = Occ(v)
        /\ locals.total_bytes = N
        /\ locals.unique_bytes = Cardinality({v \in 0..255 : locals.byte_counts[v] > 0})

C2_Witness ==
    /\ Has("byte_counts")
    /\ N >= 3
    /\ locals.unique_bytes = 2
    /\ locals.byte_counts[255] = 2

SignedDiff == [i \in 0..(N - 2) |-> content[i + 2] - content[i + 1]]

\* C3: for length >= 2 the rate-of-change mean, median and standard
\* deviation are those of the signed differences buffer[i+1] - buffer[i]
C3_SignedRateOfChange ==
    (Has("mean_rate") /\ N >= 2) =>
        /\ locals.mean_rate = hex(Trunc(Sum(SignedDiff), N - 1))
        /\ locals.median_rate = hex(int(median(SignedDiff)).val)
        /\ locals.std_rate = hex(int(std(SignedDiff)).val)

\* C4: no NaN in any field of a returned record; in particular skewness and
\* kurtosis of a buffer of identical bytes are not NaN
C4_NoNaN ==
    pc = "done" =>
        /\ ~HasNaN(stats.skewness)
        /\ ~HasNaN(stats.kurtosis)
        /\ ~HasNaN(stats.entropy)
        /\ ~HasNaN(stats.ngram_entropy)
        /\ ~HasNaN(stats.even_odd_distribution.even_to_odd_ratio)
        /\ \A lag \in 1..Len(stats.autocorrelation) : ~HasNaN(stats.autocorrelation[lag])

\* the Pearson correlation of two sequences of equal length, as the model
\* keeps it: covariance and variances scaled by the squared length
Pearson(a, b) ==
    [kind |-> "corr",
     cov |-> Len(a) * SeqSum([i \in 1..Len(a) |-> a[i] * b[i]]) - SeqSum(a) * SeqSum(b),
     va |-> Len(a) * SeqSum([i \in 1..Len(a) |-> a[i] * a[i]]) - SeqSum(a) * SeqSum(a),
     vb |-> Len(b) * SeqSum([i \in 1..Len(b) |-> b[i] * b[i]]) - SeqSum(b) * SeqSum(b)]

\* C5: 10 entries; entry L is null exactly when n <= L, else 0 when
\* buffer[0:n-L] or buffer[L:n] is constant, else their Pearson correlation;
\* the nulls form a suffix and no entry is NaN
C5_Autocorrelation ==
    Has("autocorrs") =>
        /\ Len(locals.autocorrs) = 10
        /\ \A L \in 1..10 :
            locals.autocorrs[L] =
                IF N <= L THEN None
                ELSE IF IsConstant(SubSeq(content, 1, N - L)) \/ IsConstant(SubSeq(content, L + 1, N))
                THEN PyInt(0)
                ELSE Pearson(SubSeq(content, 1, N - L), SubSeq(content, L + 1, N))
        /\ \A L \in 1..10 : (locals.autocorrs[L] = None) <=> (N <= L)
        /\ \A L \in 1..9 : locals.autocorrs[L] = None => locals.autocorrs[L + 1] = None
        /\ \A L \in 1..10 : ~HasNaN(locals.autocorrs[L])

C5_Witness ==
    /\ Has("autocorrs")
    /\ locals.autocorrs[1].kind = "corr"
    /\ locals.autocorrs[2] = PyInt(0)
    /\ locals.autocorrs[3] # None
    /\ locals.autocorrs[10] = None

\* C6: for length 0 or 1 the rate-of-change statistics are 0, both pattern
\* lists are empty and all 10 lags are null; for the empty buffer entropy,
\* 3-gram entropy and both run lengths are 0 and the even/odd ratio is null
C6_ShortBuffers ==
    /\ (N <= 1 /\ Has("mean_rate")) =>
            locals.mean_rate = Zero /\ locals.median_rate = Zero /\ locals.std_rate = Zero
    /\ (N <= 1 /\ Has("common_2byte_patterns")) =>
            locals.common_2byte_patterns = <<>> /\ locals.common_4byte_patterns = <<>>
    /\ (N <= 1 /\ Has("autocorrs")) =>
            Len(locals.autocorrs) = 10 /\ \A L \in 1..10 : locals.autocorrs[L] = None
    /\ (N = 0 /\ Has("entropy_value")) => NumZero(locals.entropy_value)
    /\ (N = 0 /\ Has("ngram_entropy")) => NumZero(locals.ngram_entropy)
    /\ (N = 0 /\ Has("max_run")) => NumZero(locals.max_run) /\ NumZero(locals.avg_run)
    /\ (N = 0 /\ Has("even_odd_distribution")) => locals.even_odd_distribution.even_to_odd_ratio = None

C6_Witness == N = 0 /\ Has("even_odd_distribution") /\ locals.even_odd_distribution.odd = 0

\* C7: for N >= 1 identical bytes: one unique byte, one run of length N,
\* entropy 0, standard deviation 0, and autocorrelation 0 at every lag
\* L < N, null at the others
C7_IdenticalBytes ==
    (N >= 1 /\ IsConstant(content)) =>
        /\ Has("unique_bytes") => locals.unique_bytes = 1
        /\ Has("std_value") => locals.std_value = Zero
        /\ Has("entropy_value") => NumZero(locals.entropy_value)
        /\ Has("max_run") => NumEq(locals.max_run, N) /\ NumEq(locals.avg_run, N)
        /\ Has("autocorrs") =>
                \A L \in 1..10 : locals.autocorrs[L] = IF N > L THEN PyInt(0) ELSE None

C7_Witness == pc = "done" /\ N >= 11 /\ IsConstant(content) /\ stats.autocorrelation[10] = PyInt(0)

\* the bytes and counts a rendered list shows
Bytes(list) == [k \in 1..Len(list) |-> EntryByte(list[k])]

Counts(list) == [k \in 1..Len(list) |-> EntryCount(list[k])]

\* C8: the least-common list has min(3, unique_bytes) entries, all with
\* their true nonzero count, in non-decreasing count order; no byte left out
\* has a smaller nonzero count; of two bytes with equal counts the lower
\* byte value is selected first and listed first
C8_LeastCommon ==
    Has("least_common") =>
        LET list == locals.least_common
        IN  /\ Len(list) = Min(3, Cardinality(Present))
            /\ \A k \in 1..Len(list) :
                /\ Bytes(list)[k] \in Present
                /\ Counts(list)[k] = Occ(Bytes(list)[k])
                /\ Counts(list)[k] > 0
            /\ \A k, j \in 1..Len(list) : k < j =>
                /\ Bytes(list)[k] # Bytes(list)[j]
                /\ Counts(list)[k] <= Counts(list)[j]
                /\ Counts(list)[k] = Counts(list)[j] => Bytes(list)[k] < Bytes(list)[j]
            /\ \A v \in Present : (\A k \in 1..Len(list) : Bytes(list)[k] # v) =>
                \A k \in 1..Len(list) :
                    /\ Occ(v) >= Counts(list)[k]
                    /\ Occ(v) = Counts(list)[k] => Bytes(list)[k] < v

\* C9: the most-common list has exactly 3 entries for distinct byte values,
\* with their true counts in non-increasing order, none smaller than the
\* count of a byte left out; with fewer than 3 distinct bytes the rest are
\* zero-count bytes; for 00 01 00 01 00 01 the first two are 00 and 01 with
\* count 3
C9_MostCommon ==
    Has("most_common") =>
        LET list == locals.most_common
        IN  /\ Len(list) = 3
            /\ \A k \in 1..3 :
                /\ Bytes(list)[k] \in 0..255
                /\ Counts(list)[k] = Occ(Bytes(list)[k])
                /\ list[k] = hex(Bytes(list)[k]) \o CountSuffix(Counts(list)[k])
            /\ \A k, j \in 1..3 : k < j =>
                /\ Bytes(list)[k] # Bytes(list)[j]
                /\ Counts(list)[k] >= Counts(list)[j]
            /\ \A v \in Present : (\A k \in 1..3 : Bytes(list)[k] # v) =>
                \A k \in 1..3 : Occ(v) <= Counts(list)[k]
            /\ \A k \in 1..3 : k > Cardinality(Present) => Counts(list)[k] = 0
            /\ content = <<0, 1, 0, 1, 0, 1>> =>
                /\ {Bytes(list)[1], Bytes(list)[2]} = {0, 1}
                /\ Counts(list)[1] = 3 /\ Counts(list)[2] = 3

C9_Witness ==
    /\ Has("most_common")
    /\ content = <<0, 1, 0, 1, 0, 1>>
    /\ EntryCount(locals.most_common[3]) = 0

\* the windows of width w of the file, and how often each occurs
Windows(w) == {SubSeq(content, i, i + w - 1) : i \in 1..(N - w + 1)}

WinCount(win) == Cardinality({i \in 1..(N - Len(win) + 1) : SubSeq(content, i, i + Len(win) - 1) = win})

RECURSIVE BigEndianHex(_)
\* the bytes of a window as two hex digits each, first byte first
BigEndianHex(win) ==
    IF win = <<>> THEN <<>>
    ELSE <<HexDigits[(win[1] \div 16) + 1], HexDigits[(win[1] % 16) + 1]>>
            \o BigEndianHex(SubSeq(win, 2, Len(win)))

\* the window a rendered pattern entry shows
EntryWindow(e, w) == CHOOSE win \in Windows(w) : <<"0", "x">> \o BigEndianHex(win) = SubSeq(e, 1, FirstSpace(e) - 1)

PatternRanking(list, w) ==
    IF N < w THEN list = <<>>
    ELSE /\ Len(list) = Min(3, Cardinality(Windows(w)))
         /\ \A k \in 1..Len(list) :
                /\ \E win \in Windows(w) : <<"0", "x">> \o BigEndianHex(win) = SubSeq(list[k], 1, FirstSpace(list[k]) - 1)
                /\ Counts(list)[k] = WinCount(EntryWindow(list[k], w))
         /\ \A k, j \in 1..Len(list) : k < j =>
                /\ EntryWindow(list[k], w) # EntryWindow(list[j], w)
                /\ Counts(list)[k] >= Counts(list)[j]
         /\ \A win \in Windows(w) : (\A k \in 1..Len(list) : EntryWindow(list[k], w) # win) =>
                \A k \in 1..Len(list) : WinCount(win) <= Counts(list)[k]
         /\ SeqSum([k \in 1..Len(list) |-> Counts(list)[k]]) <= N - w + 1
         /\ Len(list) = Cardinality(Windows(w)) => SeqSum([k \in 1..Len(list) |-> Counts(list)[k]]) = N - w + 1

\* C10: for w in {2, 4} the pattern list is empty when n < w; otherwise it
\* has min(3, distinct windows) entries, each a big-endian window with its
\* true count among the n - w + 1 windows, in non-increasing count order,
\* none smaller than the count of a window left out
C10_PatternRanking ==
    Has("common_2byte_patterns") =>
        /\ PatternRanking(locals.common_2byte_patterns, 2)
        /\ PatternRanking(locals.common_4byte_patterns, 4)

C10_Witness ==
    /\ Has("common_4byte_patterns")
    /\ Cardinality(Windows(4)) >= 4
    /\ Len(locals.common_4byte_patterns) = 3
    /\ EntryCount(locals.common_4byte_patterns[1]) > EntryCount(locals.common_4byte_patterns[2])
    /\ \E i \in 1..N : content[i] >= 128

\* the byte values of the file in ascending order
PresentSeq == SortedSeq(Present)

\* floor and ceiling of log2(t / c) for 1 <= c <= t
FloorLog2(t, c) == SetMax({j \in 0..16 : c * 2^j <= t})

CeilLog2(t, c) == SetMin({j \in 0..16 : c * 2^j >= t})

\* an entropy over probabilities c/t lies between EntropyLow/t and
\* EntropyHigh/t bits, each term -(c/t) * log2(c/t) being (c/t) * log2(t/c);
\* the two agree when every t/c is a power of two
EntropyLow(x) == SeqSum([k \in 1..Len(x.probs) |-> x.probs[k][1] * FloorLog2(x.probs[k][2], x.probs[k][1])])

EntropyHigh(x) == SeqSum([k \in 1..Len(x.probs) |-> x.probs[k][1] * CeilLog2(x.probs[k][2], x.probs[k][1])])

EqualCounts == \A v, w \in Present : Occ(v) = Occ(w)

\* C11: for a non-empty buffer the entropy sums one term per byte value
\* present, with p = count/total > 0 (no term for a zero count); it is 0
\* exactly when one byte value is present, it is at least 0 and, as a sum over
\* at most 256 probabilities adding up to 1, at most 8 bits; when 2^m byte
\* values occur equally often it is m bits (1 bit for 00 01 00 01 00 01)
C11_Entropy ==
    (Has("entropy_value") /\ N >= 1) =>
        LET e == locals.entropy_value
        IN  /\ e.kind = "entropy"
            /\ e.probs = [k \in 1..Len(PresentSeq) |-> <<Occ(PresentSeq[k]), N>>]
            /\ \A k \in 1..Len(e.probs) : e.probs[k][1] > 0 /\ e.probs[k][1] <= e.probs[k][2]
            /\ NumZero(e) <=> Cardinality(Present) = 1
            /\ Len(e.probs) <= 256
            /\ SeqSum([k \in 1..Len(e.probs) |-> e.probs[k][1]]) = N
            /\ EntropyLow(e) >= 0
            /\ EntropyLow(e) <= 8 * N
            /\ \A m \in 0..8 : (Cardinality(Present) = 2^m /\ EqualCounts) =>
                    EntropyLow(e) = m * N /\ EntropyHigh(e) = m * N
            /\ content = <<0, 1, 0, 1, 0, 1>> => EntropyLow(e) = N /\ EntropyHigh(e) = N

C11_Witness ==
    /\ Has("entropy_value")
    /\ Cardinality(Present) = 4
    /\ EqualCounts
    /\ EntropyHigh(locals.entropy_value) = 2 * N

Evens == {i \in 1..N : content[i] % 2 = 0}

Odds == {i \in 1..N : content[i] % 2 = 1}

\* C12: even and odd count the bytes of even and of odd value and add up to
\* the length; the ratio is null exactly when there is no odd byte, and
\* otherwise the quotient even/odd, never infinity or NaN
C12_EvenOdd ==
    Has("even_odd_distribution") =>
        LET d == locals.even_odd_distribution
        IN  /\ d.even = Cardinality(Evens)
            /\ d.odd = Cardinality(Odds)
            /\ d.even + d.odd = N
            /\ (d.even_to_odd_ratio = None) <=> (Cardinality(Odds) = 0)
            /\ Cardinality(Odds) # 0 =>
                    /\ d.even_to_odd_ratio.kind = "float"
                    /\ d.even_to_odd_ratio.den # 0
                    /\ d.even_to_odd_ratio.num * Cardinality(Odds) = Cardinality(Evens) * d.even_to_odd_ratio.den
            /\ d.even_to_odd_ratio.kind \notin {"inf", "nan"}

C12_Witness ==
    /\ Has("even_odd_distribution")
    /\ locals.even_odd_distribution.even >= 2
    /\ locals.even_odd_distribution.odd = 0
    /\ locals.even_odd_distribution.even_to_odd_ratio = None

\* the positions after which the byte value changes
Boundaries == {i \in 1..(N - 1) : content[i] # content[i + 1]}

\* the lengths of the stretches of equal bytes
StretchLengths == {len \in 1..N : \E i \in 1..(N - len + 1) : IsConstant(SubSeq(content, i, i + len - 1))}

\* C13: for a non-empty buffer the runs are the maximal stretches of equal
\* bytes: there are 1 + (number of positions where the next byte differs,
\* whether larger or smaller) of them, their lengths add up to the length of
\* the buffer, max_run_length is the longest stretch and avg_run_length the
\* length of the buffer divided by the number of runs
C13_Runs ==
    (Has("max_run") /\ N >= 1) =>
        /\ locals.max_run = PyInt(SetMax(StretchLengths))
        /\ locals.max_run.val >= 1
        /\ locals.avg_run.kind = "float"
        /\ locals.avg_run.den = 1 + Cardinality(Boundaries)
        /\ locals.avg_run.num = N
        /\ locals.max_run.val * locals.avg_run.den >= N
        /\ locals.max_run.val + Cardinality(Boundaries) <= N

C13_Witness ==
    /\ Has("max_run")
    /\ N = 4
    /\ content[1] > content[2]
    /\ content[3] > content[4]
    /\ locals.max_run = PyInt(2)
    /\ locals.avg_run = PyFloat(4, 3)

LoopMessages == SelectSeq(stdout, LAMBDA m : m.kind \in {"finished", "error"})

\* the positions in files of the files whose analysis succeeded, ascending
Succeeded == SelectSeq([k \in 1..Len(LoopMessages) |-> k], LAMBDA k : LoopMessages[k].kind = "finished")

\* C17: main handles the files one at a time in input order, each once; an
\* analysis that fails is caught and the files after it are still analysed;
\* when main has ended, the record of every file analysed successfully has
\* been printed by print_stats and, with --generate-csv, written as one CSV
\* row, in input order, whatever the other records hold
C17_PerFileIsolation ==
    /\ \A k \in 1..Len(LoopMessages) : LoopMessages[k].i = k /\ LoopMessages[k].file = files[k]
    /\ Len(stats_list) = Len(Succeeded)
    /\ \A k \in 1..Len(stats_list) : stats_list[k].filename = basename(files[Succeeded[k]])
    /\ main_pc \in {"print_stats", "csv", "exit", "crashed"} => Len(LoopMessages) = Len(files)
    /\ main_pc \in {"exit", "crashed"} =>
            /\ Len(printed) = Len(stats_list)
            /\ \A k \in 1..Len(printed) : ~printed[k].raised /\ printed[k].stats = stats_list[k]
            /\ generate_csv => csvfile.rows = stats_list /\ (stats_list # <<>> => csvfile.written)

\* the window of width w that starts at index k (from 0) of the file
Window(k, w) == SubSeq(content, k + 1, k + w)

\* the four bytes of a 32-bit value <<hi, lo>> and the two bytes of a 16-bit
\* value, most significant first
Unpack4(v) == <<v[1] \div 256, v[1] % 256, v[2] \div 256, v[2] % 256>>

Unpack2(v) == <<v \div 256, v % 256>>

\* C16: the packed value of a 4-byte window is b0*2^24 + b1*2^16 + b2*2^8 + b3
\* within 32 bits (halves b0*2^8 + b1 and b2*2^8 + b3 within 16 bits each)
\* and unpacks to the window; the packed value of a 2-byte window is
\* b0*256 + b1 within 16 bits; two windows have the same packed value, and
\* are counted together, exactly when they are equal byte for byte
C16_PackingRoundTrip ==
    Has("common_4byte_patterns") =>
        LET p4 == patterns4(frombuffer(content))
            p2 == patterns2(frombuffer(content))
        IN  /\ DOMAIN p4 = 0..(N - 4)
            /\ \A k \in DOMAIN p4 :
                /\ p4[k][1] \in 0..65535 /\ p4[k][2] \in 0..65535
                /\ p4[k] = <<Window(k, 4)[1] * 256 + Window(k, 4)[2], Window(k, 4)[3] * 256 + Window(k, 4)[4]>>
                /\ Unpack4(p4[k]) = Window(k, 4)
            /\ \A j, k \in DOMAIN p4 : (p4[j] = p4[k]) <=> (Window(j, 4) = Window(k, 4))
            /\ DOMAIN p2 = 0..(N - 2)
            /\ \A k \in DOMAIN p2 :
                /\ p2[k] \in 0..65535
                /\ p2[k] = Window(k, 2)[1] * 256 + Window(k, 2)[2]
                /\ Unpack2(p2[k]) = Window(k, 2)
            /\ \A j, k \in DOMAIN p2 : (p2[j] = p2[k]) <=> (Window(j, 2) = Window(k, 2))
            /\ \A k \in 1..Len(locals.common_4byte_patterns) :
                    EntryCount(locals.common_4byte_patterns[k]) = WinCount(EntryWindow(locals.common_4byte_patterns[k], 4))
            /\ \A k \in 1..Len(locals.common_2byte_patterns) :
                    EntryCount(locals.common_2byte_patterns[k]) = WinCount(EntryWindow(locals.common_2byte_patterns[k], 2))

C16_Witness ==
    /\ Has("common_4byte_patterns")
    /\ \E j, k \in 0..(N - 4) :
        /\ Window(j, 4)[1] >= 128
        /\ Window(j, 4)[1] # Window(k, 4)[1]
        /\ SubSeq(Window(j, 4), 2, 4) = SubSeq(Window(k, 4), 2, 4)
        /\ patterns4(frombuffer(content))[j] # patterns4(frombuffer(content))[k]

\* the integer part of the quotient n/d, d > 0: the fraction is dropped, toward zero
IntegerPart(n, d) ==
    IF n >= 0 THEN CHOOSE q \in 0..n : q * d <= n /\ n < (q + 1) * d
    ELSE CHOOSE q \in n..0 : q * d >= n /\ n > (q - 1) * d

\* the k-th smallest value of a sequence of integers
KthSmallest(s, k) ==
    CHOOSE v \in {s[j] : j \in 1..Len(s)} :
        /\ Cardinality({j \in 1..Len(s) : s[j] < v}) < k
        /\ Cardinality({j \in 1..Len(s) : s[j] <= v}) >= k

\* twice the median of a non-empty sequence
TwiceMedian(s) ==
    IF Len(s) % 2 = 1 THEN 2 * KthSmallest(s, (Len(s) + 1) \div 2)
    ELSE KthSmallest(s, Len(s) \div 2) + KthSmallest(s, Len(s) \div 2 + 1)

\* the largest integer r with r * r <= the population variance of s
StdIntegerPart(s) ==
    LET v == Len(s) * SeqSum([j \in 1..Len(s) |-> s[j] * s[j]]) - SeqSum(s) * SeqSum(s)
    IN  CHOOSE r \in 0..255 : r * r * Len(s) * Len(s) <= v /\ (r + 1) * (r + 1) * Len(s) * Len(s) > v

\* the first differences buffer[k+1] - buffer[k] of the file
Differences == [k \in 1..(N - 1) |-> content[k + 1] - content[k]]

\* C15: for a non-empty buffer the reported mean, median and standard
\* deviation are the integer parts of sum/N, of the median and of the
\* population standard deviation, never rounded up; for two bytes or more the
\* same holds, truncating toward zero, for the first differences
C15_IntegerTruncation ==
    /\ (Has("mean_value") /\ N >= 1) =>
            /\ locals.mean_value = hex(IntegerPart(SeqSum(content), N))
            /\ locals.median_value = hex(IntegerPart(TwiceMedian(content), 2))
            /\ locals.std_value = hex(StdIntegerPart(content))
    /\ (Has("mean_rate") /\ N >= 2) =>
            /\ locals.mean_rate = hex(IntegerPart(SeqSum(Differences), N - 1))
            /\ locals.median_rate = hex(IntegerPart(TwiceMedian(Differences), 2))
            /\ locals.std_rate = hex(StdIntegerPart(Differences))

====
